---- MODULE Spec2Model ----
(***************************************************************************)
(* Hierarchical document decomposition and lexical-graph construction:     *)
(*   DocProcExtractor.extract_hierarchy  (header parser + hierarchy tree)  *)
(*   Neo4jAPI.create_lexical_graph       (graph loader, chunks, NEXT pass) *)
(*   DocProcExtractor.shrink_file        (character chunker)               *)
(* Strings are sequences of one-character strings; a path is the sequence  *)
(* of its component names; the storage tree is a set of directories and a  *)
(* map from a directory to the text of its content.txt.                    *)
(***************************************************************************)
EXTENDS Integers, Sequences, FiniteSets, TLC

VARIABLES
    text,             \* the decoded input text of the document
    root,             \* the document's hierarchy folder, a path
    confident,        \* whether charset detection finds a decoding of the text file
    vector_dim,       \* create_lexical_graph: vector_dim, the dimension of the vector index
    input_files,      \* extract_data: self.files
    processed,        \* extract_data: processed
    extracted,        \* the documents marked as extracted for the task
    raised,           \* history: the files on which the task function raised
    pc,               \* position of the pipeline
    run,              \* 1 in the first run of the pipeline, 2 in the re-run
    lines,            \* text.splitlines(True)
    li,               \* index of the next line of the `for line in lines` loop
    stack,            \* [(level, folder_path)]
    counters,         \* per-depth counters
    current_content,  \* lines accumulated for the open section
    sections,         \* history: one record per header met, in document order
    dirs,             \* storage: the directories that exist
    files,            \* storage: directory -> text of its content.txt
    nodes,            \* graph store: node records, in creation order
    edges,            \* graph store: relationship records, in creation order
    worklist,         \* process_folder: pending (item_path, parent_id, parent_level)
    level_nodes,      \* [(level, [(order, id, name)])] in dict insertion order
    pcf,              \* the running process_content_file: parent_id, chunks, idx
    embed_failed,     \* history: chunk ids whose embed_query call raised (this run)
    split_log,        \* history: owner id -> number of chunks of its content unit
    writes,           \* history: the writes session.run has issued in this run, in order
    first_run,        \* storage and graph as they were when the first run ended
    sk_text,          \* shrink_file: text read from the input file
    chunk_length,     \* shrink_file: chunk_length
    overlap_size,     \* shrink_file: overlap_size
    start,            \* shrink_file: start
    chunks,           \* shrink_file: chunks
    sk_files          \* shrinks folder: chunk number -> text of chunk_{n}.txt

vars == <<text, root, confident, vector_dim, input_files, processed, extracted, raised, pc, run, lines, li, stack, counters, current_content, sections,
          dirs, files, nodes, edges, worklist, level_nodes, pcf, embed_failed,
          split_log, writes, first_run, sk_text, chunk_length, overlap_size, start,
          chunks, sk_files>>

docVars == <<root, confident, vector_dim>>
batchVars == <<input_files, processed, extracted, raised>>
hierVars == <<lines, li, stack, counters, current_content, sections>>
storeVars == <<dirs, files>>
graphVars == <<nodes, edges, worklist, level_nodes, pcf, embed_failed, split_log, writes>>
shrinkVars == <<sk_text, chunk_length, overlap_size, start, chunks, sk_files>>

(***************************************************************************)
(* Bounds                                                                  *)
(***************************************************************************)
\* longest header-level sequence of the header-parser specification
MaxHeaders == 6
\* deepest header level drawn for the inputs
MaxLevel == 3
\* most lines of an input text of the pipeline specification
MaxLines == 4
\* longest text given to shrink_file
MaxText == 5
\* largest chunk_length given to shrink_file
MaxChunk == 3
\* most sibling sections of the listing specification
MaxSiblings == 10
\* most files of the input folder of extract_data
MaxFiles == 4
\* most lines of the text of each of two documents
MaxDocLines == 2
\* most lines of an input text of the interrupted pipeline
MaxCrashLines == 3

(***************************************************************************)
(* Strings                                                                 *)
(***************************************************************************)
\* str.isspace / regex \s on the characters the inputs use
IsSpace(c) == c \in {" ", "\n"}

\* s[a-1:b] with 1-based inclusive bounds
SubStr(s, a, b) == IF b >= a THEN SubSeq(s, a, b) ELSE <<>>

RECURSIVE Concat(_)
\* "".join(list)
Concat(ss) == IF ss = <<>> THEN <<>> ELSE Head(ss) \o Concat(Tail(ss))

\* length of the run of '#' that starts s
LeadingHashes(s) ==
    IF \E k \in 1..Len(s) : s[k] # "#"
    THEN (CHOOSE k \in 1..Len(s) : s[k] # "#" /\ \A j \in 1..(k-1) : s[j] = "#") - 1
    ELSE Len(s)

\* length of the run of whitespace that starts at position `from` of s
SpacesFrom(s, from) ==
    IF \E k \in from..Len(s) : ~IsSpace(s[k])
    THEN (CHOOSE k \in from..Len(s) : ~IsSpace(s[k]) /\ \A j \in from..(k-1) : IsSpace(s[j])) - from
    ELSE Len(s) - from + 1

\* str.strip()
strip(s) ==
    IF \A k \in 1..Len(s) : IsSpace(s[k]) THEN <<>>
    ELSE LET a == CHOOSE k \in 1..Len(s) : ~IsSpace(s[k]) /\ \A j \in 1..(k-1) : IsSpace(s[j])
             b == CHOOSE k \in 1..Len(s) : ~IsSpace(s[k]) /\ \A j \in (k+1)..Len(s) : IsSpace(s[j])
         IN  SubStr(s, a, b)

\* str.rstrip('\n')
rstrip_nl(s) ==
    IF \A k \in 1..Len(s) : s[k] = "\n" THEN <<>>
    ELSE LET b == CHOOSE k \in 1..Len(s) : s[k] # "\n" /\ \A j \in (k+1)..Len(s) : s[j] = "\n"
         IN  SubStr(s, 1, b)

RECURSIVE splitlines(_)
\* str.splitlines(True): every line keeps its terminator
splitlines(s) ==
    IF s = <<>> THEN <<>>
    ELSE IF \E k \in 1..Len(s) : s[k] = "\n"
         THEN LET e == CHOOSE k \in 1..Len(s) : s[k] = "\n" /\ \A j \in 1..(k-1) : s[j] # "\n"
              IN  <<SubStr(s, 1, e)>> \o splitlines(SubStr(s, e + 1, Len(s)))
         ELSE <<s>>

RECURSIVE Digits(_)
\* str(n) for n >= 0
Digits(n) ==
    LET d == <<"0", "1", "2", "3", "4", "5", "6", "7", "8", "9">>
    IN  IF n < 10 THEN <<d[n + 1]>> ELSE Digits(n \div 10) \o <<d[(n % 10) + 1]>>

(***************************************************************************)
(* Storage                                                                 *)
(***************************************************************************)
\* the document's hierarchy folder, hierarchy_{basename}
output_path == root

RECURSIVE SplitSep(_)
\* the components of a relative path string (empty components dropped)
SplitSep(s) ==
    IF \E k \in 1..Len(s) : s[k] = "/"
    THEN LET e == CHOOSE k \in 1..Len(s) : s[k] = "/" /\ \A j \in 1..(k-1) : s[j] # "/"
             h == SubStr(s, 1, e - 1)
         IN  (IF h = <<>> THEN <<>> ELSE <<h>>) \o SplitSep(SubStr(s, e + 1, Len(s)))
    ELSE IF s = <<>> THEN <<>> ELSE <<s>>

\* os.path.join(path, name)
path_join(path, name) == path \o SplitSep(name)

RECURSIVE realpath(_)
\* the directory a path names once the file system has resolved its "." and
\* ".." components
realpath(path) ==
    IF path = <<>> THEN <<>>
    ELSE LET up == realpath(SubSeq(path, 1, Len(path) - 1))
             c == path[Len(path)]
         IN  IF c = <<".">> THEN up
             ELSE IF c = <<".", ".">> THEN SubSeq(up, 1, Len(up) - 1)
             ELSE Append(up, c)

\* os.makedirs(path, exist_ok=True)
makedirs(ds, path) == ds \cup {realpath(SubSeq(path, 1, k)) : k \in 1..Len(path)}

\* open(os.path.join(path, "content.txt"), "w").write(content)
write_file(fs, path, content) == (realpath(path) :> content) @@ fs

(***************************************************************************)
(* extract_hierarchy                                                       *)
(***************************************************************************)
\* header_pattern.match(line) for r"^(#+)\s+(.*)"
header_match(line) ==
    LET h == LeadingHashes(line)
        s == SpacesFrom(line, h + 1)
        rest == SubStr(line, h + s + 1, Len(line))
        stop == IF \E k \in 1..Len(rest) : rest[k] = "\n"
                THEN (CHOOSE k \in 1..Len(rest) : rest[k] = "\n" /\ \A j \in 1..(k-1) : rest[j] # "\n") - 1
                ELSE Len(rest)
    IN  IF h >= 1 /\ s >= 1
        THEN [matched |-> TRUE, level |-> h, group2 |-> SubStr(rest, 1, stop)]
        ELSE [matched |-> FALSE, level |-> 0, group2 |-> <<>>]

\* re.search(r'(?m)^#+', text): the text before the first line that starts with '#'
extract_text_before_heading(t) ==
    LET at(k) == t[k] = "#" /\ (k = 1 \/ t[k - 1] = "\n")
    IN  IF \E k \in 1..Len(t) : at(k)
        THEN LET m == CHOOSE k \in 1..Len(t) : at(k) /\ \A j \in 1..(k-1) : ~at(j)
             IN  rstrip_nl(SubStr(t, 1, m - 1))
        ELSE rstrip_nl(t)

\* write_content(): the accumulated text goes to content.txt of the open section
write_content_dirs(ds, st) ==
    IF st # <<>> THEN makedirs(ds, st[Len(st)][2]) ELSE ds

write_content_files(fs, st, content) ==
    IF st # <<>> THEN write_file(fs, st[Len(st)][2], strip(Concat(content))) ELSE fs

RECURSIVE pop_stack_deeper(_, _)
\* a variant that closes only the deeper sections
pop_stack_deeper(st, level) ==
    IF st # <<>> /\ st[Len(st)][1] > level
    THEN pop_stack_deeper(SubSeq(st, 1, Len(st) - 1), level)
    ELSE st

RECURSIVE pop_stack(_, _)
\* while stack and stack[-1][0] >= level: stack.pop()
pop_stack(st, level) ==
    IF st # <<>> /\ st[Len(st)][1] >= level
    THEN pop_stack(SubSeq(st, 1, Len(st) - 1), level)
    ELSE st

\* a variant that also pops the counter of the level itself
adjust_counters_own(c, level) ==
    [k \in 1..level |-> IF k < level /\ k <= Len(c) THEN c[k] ELSE 0]

\* a variant that pads the counters but never pops the counters of deeper levels
adjust_counters_pad(c, level) ==
    [k \in 1..(IF Len(c) > level THEN Len(c) ELSE level) |-> IF k <= Len(c) THEN c[k] ELSE 0]

\* while len(counters) < level: append(0); while len(counters) > level: pop()
adjust_counters(c, level) ==
    [k \in 1..level |-> IF k <= Len(c) THEN c[k] ELSE 0]

\* a variant that assigns 1 instead of incrementing
bump_counters_assign(c, level) ==
    [k \in 1..Len(c) |-> IF k = level THEN 1 ELSE IF k > level THEN 0 ELSE c[k]]

\* counters[level-1] += 1; for i in range(level, len(counters)): counters[i] = 0
bump_counters(c, level) ==
    [k \in 1..Len(c) |-> IF k = level THEN c[k] + 1 ELSE IF k > level THEN 0 ELSE c[k]]

\* f"l{level-1}-n{number_prefix}-{title}"
numbered_title(level, order, title) ==
    <<"l">> \o Digits(level - 1) \o <<"-", "n">> \o Digits(order) \o <<"-">> \o title

\* str(from_path(input_path).best()): the decoded text, or str(None) when
\* charset detection finds no decoding
str_result(found, t) == IF found THEN t ELSE <<"N", "o", "n", "e">>

\* reading the text, writing the root content unit (lines 632-658)
eh_start ==
    /\ pc = "eh_start"
    /\ lines' = splitlines(str_result(confident, text))
    /\ li' = 1
    /\ stack' = <<>>
    /\ current_content' = <<>>
    /\ counters' = <<>>
    /\ sections' = <<>>
    /\ dirs' = makedirs(dirs, output_path)
    /\ files' = write_file(files, output_path,
                            extract_text_before_heading(str_result(confident, text)))
    /\ pc' = "eh_loop"
    /\ UNCHANGED <<docVars, batchVars, text, run, first_run>>
    /\ UNCHANGED graphVars
    /\ UNCHANGED shrinkVars

\* one iteration of the loop over the lines, header branch (lines 672-702)
eh_header ==
    /\ pc = "eh_loop"
    /\ li <= Len(lines)
    /\ \E m \in {header_match(lines[li])} :
       /\ m.matched
       /\ LET level == m.level
              title == strip(m.group2)
              st == pop_stack(stack, level)
              cs == bump_counters(adjust_counters(counters, level), level)
              name == numbered_title(level, cs[level], title)
              folder_path == IF st # <<>> THEN path_join(st[Len(st)][2], name)
                             ELSE path_join(output_path, name)
          IN  /\ dirs' = write_content_dirs(dirs, stack)
              /\ files' = write_content_files(files, stack, current_content)
              /\ current_content' = <<>>
              /\ counters' = cs
              /\ stack' = Append(st, <<level, folder_path>>)
              /\ sections' = Append(sections,
                                    [level |-> level, order |-> cs[level], title |-> title,
                                     path |-> folder_path, line |-> li])
    /\ li' = li + 1
    /\ UNCHANGED <<docVars, batchVars, text, pc, run, lines, first_run>>
    /\ UNCHANGED graphVars
    /\ UNCHANGED shrinkVars

\* one iteration of the loop over the lines, content branch (lines 704-706)
eh_content ==
    /\ pc = "eh_loop"
    /\ li <= Len(lines)
    /\ ~header_match(lines[li]).matched
    /\ current_content' = Append(current_content, lines[li])
    /\ li' = li + 1
    /\ UNCHANGED <<docVars, batchVars, text, pc, run, lines, stack, counters, sections, first_run>>
    /\ UNCHANGED storeVars
    /\ UNCHANGED graphVars
    /\ UNCHANGED shrinkVars

\* after the loop: the last section's content is written (line 709)
eh_finish ==
    /\ pc = "eh_loop"
    /\ li > Len(lines)
    /\ dirs' = write_content_dirs(dirs, stack)
    /\ files' = write_content_files(files, stack, current_content)
    /\ pc' = "hier_done"
    /\ UNCHANGED <<docVars, batchVars, text, run, first_run>>
    /\ UNCHANGED hierVars
    /\ UNCHANGED graphVars
    /\ UNCHANGED shrinkVars

extract_hierarchy == eh_start \/ eh_header \/ eh_content \/ eh_finish

(***************************************************************************)
(* Graph store                                                             *)
(***************************************************************************)
\* hashlib.md5(text.encode()).hexdigest(): equal ids only for equal texts. The
\* hashed text is kept in structured form: what it names, the path, the index.
generate_id(key) == key

\* the text hashed for the Document node: the folder's basename
NameKey(folder_name) == <<"name", <<folder_name>>, -1>>
\* the text hashed for a heading node: item_path
PathKey(item_path) == <<"path", item_path, -1>>
\* the text hashed for a chunk: f"{parent_id}_chunk_{idx}"
ChunkKey(parent_id, idx) ==
    <<IF parent_id[1] = "name" THEN "name_chunk" ELSE "path_chunk", parent_id[2], idx>>

NoVector == [zero |-> FALSE, dim |-> 0]

\* a node that MERGE creates, before any SET
NewNode(kind, label, id) ==
    [kind |-> kind, label |-> label, id |-> id, name |-> <<>>, number |-> <<>>,
     text |-> <<>>, embedding |-> NoVector, index |-> -1]

\* a variant that always creates the node (CREATE instead of MERGE)
create_node(ns, kind, label, id, props) == Append(ns, props @@ NewNode(kind, label, id))

\* MERGE (n:label {id: $id}) SET n.p = v, ...: props holds the properties set
merge_node(ns, kind, label, id, props) ==
    IF \E k \in 1..Len(ns) : ns[k].kind = kind /\ ns[k].label = label /\ ns[k].id = id
    THEN [k \in 1..Len(ns) |->
            IF ns[k].kind = kind /\ ns[k].label = label /\ ns[k].id = id
            THEN props @@ ns[k] ELSE ns[k]]
    ELSE Append(ns, props @@ NewNode(kind, label, id))

HasNode(ns, id) == \E k \in 1..Len(ns) : ns[k].id = id

\* a variant that always creates the relationship (CREATE instead of MERGE)
create_rel(es, ns, from, type, to) ==
    IF HasNode(ns, from) /\ HasNode(ns, to) THEN Append(es, <<from, type, to>>) ELSE es

\* MATCH (a {id: $from_id}), (b {id: $to_id}) MERGE (a)-[:type]->(b)
merge_rel(es, ns, from, type, to) ==
    IF HasNode(ns, from) /\ HasNode(ns, to)
          /\ ~\E k \in 1..Len(es) : es[k] = <<from, type, to>>
    THEN Append(es, <<from, type, to>>)
    ELSE es

(***************************************************************************)
(* parse_folder_name, directory listing                                    *)
(***************************************************************************)
IsDigit(c) == c \in {"0", "1", "2", "3", "4", "5", "6", "7", "8", "9"}

\* length of the run of digits that starts at position `from` of s
DigitsFrom(s, from) ==
    IF \E k \in from..Len(s) : ~IsDigit(s[k])
    THEN (CHOOSE k \in from..Len(s) : ~IsDigit(s[k]) /\ \A j \in from..(k-1) : IsDigit(s[j])) - from
    ELSE Len(s) - from + 1

DigitValue(c) ==
    CHOOSE v \in 0..9 : <<"0", "1", "2", "3", "4", "5", "6", "7", "8", "9">>[v + 1] = c

RECURSIVE ParseInt(_)
\* int(digits)
ParseInt(ds) ==
    IF ds = <<>> THEN 0
    ELSE 10 * ParseInt(SubSeq(ds, 1, Len(ds) - 1)) + DigitValue(ds[Len(ds)])

RECURSIVE NumberEnd(_, _)
\* the end of the longest match of (?:\.\d+)* that starts after position e
NumberEnd(s, e) ==
    IF e + 1 <= Len(s) /\ s[e + 1] = "." /\ DigitsFrom(s, e + 2) >= 1
    THEN NumberEnd(s, e + 1 + DigitsFrom(s, e + 2))
    ELSE e

\* re.match(r'^(\d+(?:\.\d+)*)\s+', name): group 1, or the empty string for None
number_in_name(name) ==
    LET d == DigitsFrom(name, 1)
        e == NumberEnd(name, d)
    IN  IF d >= 1 /\ e + 1 <= Len(name) /\ IsSpace(name[e + 1])
        THEN SubStr(name, 1, e) ELSE <<>>

\* re.match(r'^l(\d+)-n(\d+)-(.+)$', folder_name); level -1 stands for None
parse_folder_name(folder_name) ==
    LET n == Len(folder_name)
        a == DigitsFrom(folder_name, 2)
        b == DigitsFrom(folder_name, a + 4)
        ok == /\ n >= 1 /\ folder_name[1] = "l"
              /\ a >= 1
              /\ n >= a + 3 /\ folder_name[a + 2] = "-" /\ folder_name[a + 3] = "n"
              /\ b >= 1
              /\ n >= a + b + 5 /\ folder_name[a + b + 4] = "-"
              /\ \A k \in (a + b + 5)..n : folder_name[k] # "\n"
    IN  IF ok
        THEN [level |-> ParseInt(SubStr(folder_name, 2, a + 1)),
              order |-> ParseInt(SubStr(folder_name, a + 4, a + b + 3)),
              name |-> SubStr(folder_name, a + b + 5, n),
              number |-> number_in_name(SubStr(folder_name, a + b + 5, n))]
        ELSE [level |-> -1, order |-> -1, name |-> folder_name, number |-> <<>>]

\* ord(c) for the characters the inputs use
CharCode(c) ==
    CASE c = "\n" -> 10 [] c = " " -> 32 [] c = "#" -> 35 [] c = "-" -> 45
      [] c = "." -> 46 [] c = "/" -> 47 [] IsDigit(c) -> 48 + DigitValue(c)
      [] c = "a" -> 97 [] c = "b" -> 98 [] c = "h" -> 104 [] c = "l" -> 108
      [] c = "n" -> 110 [] c = "t" -> 116 [] c = "x" -> 120

\* a < b for Python strings
StrLess(a, b) ==
    \/ Len(a) < Len(b) /\ \A k \in 1..Len(a) : a[k] = b[k]
    \/ \E k \in 1..Len(a) :
          /\ k <= Len(b)
          /\ \A j \in 1..(k-1) : a[j] = b[j]
          /\ CharCode(a[k]) < CharCode(b[k])

RECURSIVE sorted(_)
\* sorted(names)
sorted(S) ==
    IF S = {} THEN <<>>
    ELSE LET m == CHOOSE x \in S : \A y \in S \ {x} : StrLess(x, y)
         IN  <<m>> \o sorted(S \ {m})

\* the directories among os.listdir(path)
listdir(ds, path) == {p[Len(p)] : p \in {q \in ds : Len(q) = Len(path) + 1 /\ SubSeq(q, 1, Len(path)) = path}}

\* the default level_labels
level_labels == << <<"H", "1">>, <<"H", "2">>, <<"H", "3">>, <<"H", "4">>, <<"H", "5">>, <<"H", "6">> >>

\* level_labels[level] if level < len(level_labels) else f"H{level + 1}"
label_of(level) ==
    IF level < Len(level_labels) THEN level_labels[level + 1] ELSE <<"H">> \o Digits(level + 1)

(***************************************************************************)
(* process_content_file                                                    *)
(***************************************************************************)
RECURSIVE split_text(_)
\* CharacterTextSplitter.split_documents with separator "\n", chunk_overlap 0 and a
\* chunk_size below the length of any two pieces: one chunk per non-empty piece
split_text(t) ==
    IF \E k \in 1..Len(t) : t[k] = "\n"
    THEN LET e == CHOOSE k \in 1..Len(t) : t[k] = "\n" /\ \A j \in 1..(k-1) : t[j] # "\n"
             h == strip(SubStr(t, 1, e - 1))
         IN  (IF h = <<>> THEN <<>> ELSE <<h>>) \o split_text(SubStr(t, e + 1, Len(t)))
    ELSE IF strip(t) = <<>> THEN <<>> ELSE <<strip(t)>>

NoCall == [parent_id |-> <<"", <<>>, -1>>, chunks |-> <<>>, idx |-> 0]

\* the default of vector_dim
default_vector_dim == 1536
\* the length of the fallback vector, [0.0] * 1536
fallback_dim == 1536

\* a variant whose fallback is not a vector of zeros
embedding_or_fallback_nonzero(ok) == [zero |-> FALSE, dim |-> IF ok THEN vector_dim ELSE fallback_dim]

\* try: embed_query(chunk_text) / except: [0.0] * 1536; ok: the call returned
\* (the provider's vector has the dimension the index is configured with)
embedding_or_fallback(ok) ==
    IF ok THEN [zero |-> FALSE, dim |-> vector_dim] ELSE [zero |-> TRUE, dim |-> fallback_dim]

\* a variant that links the parent to every chunk
chunk_rels_every(es, ns, parent_id, idx) ==
    LET e1 == merge_rel(es, ns, parent_id, "HAS_CHILD", generate_id(ChunkKey(parent_id, idx)))
    IN  IF idx > 0
        THEN merge_rel(e1, ns, generate_id(ChunkKey(parent_id, idx - 1)), "NEXT",
                       generate_id(ChunkKey(parent_id, idx)))
        ELSE e1

\* a variant that never links the parent to the first chunk
chunk_rels_next_only(es, ns, parent_id, idx) ==
    IF idx = 0 THEN es
    ELSE merge_rel(es, ns, generate_id(ChunkKey(parent_id, idx - 1)), "NEXT",
                   generate_id(ChunkKey(parent_id, idx)))

\* if idx == 0: HAS_CHILD parent -> chunk; if idx > 0: NEXT chunk_ids[idx-1] -> chunk
chunk_rels(es, ns, parent_id, idx) ==
    IF idx = 0
    THEN merge_rel(es, ns, parent_id, "HAS_CHILD", generate_id(ChunkKey(parent_id, idx)))
    ELSE merge_rel(es, ns, generate_id(ChunkKey(parent_id, idx - 1)), "NEXT",
                   generate_id(ChunkKey(parent_id, idx)))

\* the record of a MERGE of the node id
node_write(id) == <<id, "NODE", id>>

\* the record of a MERGE of the relationship from -[type]-> to
rel_write(from, type, to) == <<from, type, to>>

\* a variant that issues the relationship of a chunk before the chunk's node
chunk_writes_rel_first(parent_id, idx) ==
    <<IF idx = 0
      THEN rel_write(parent_id, "HAS_CHILD", generate_id(ChunkKey(parent_id, idx)))
      ELSE rel_write(generate_id(ChunkKey(parent_id, idx - 1)), "NEXT",
                     generate_id(ChunkKey(parent_id, idx))),
      node_write(generate_id(ChunkKey(parent_id, idx)))>>

\* the session.run calls of one iteration over the chunks, in program order:
\* the chunk node (lines 106-110), then HAS_CHILD (113-118) or NEXT (121-127)
chunk_writes(parent_id, idx) ==
    <<node_write(generate_id(ChunkKey(parent_id, idx))),
      IF idx = 0
      THEN rel_write(parent_id, "HAS_CHILD", generate_id(ChunkKey(parent_id, idx)))
      ELSE rel_write(generate_id(ChunkKey(parent_id, idx - 1)), "NEXT",
                     generate_id(ChunkKey(parent_id, idx)))>>

\* a variant that takes the whole file as one chunk, empty or not
content_call_whole(fs, path, parent_id) ==
    IF path \notin DOMAIN fs THEN NoCall
    ELSE [parent_id |-> parent_id, chunks |-> <<fs[path]>>, idx |-> 0]

\* the call process_content_file(content.txt of path, parent_id): loading and
\* splitting the file (lines 72-89); NoCall when it returns before the loop
content_call(fs, path, parent_id) ==
    IF path \notin DOMAIN fs THEN NoCall
    ELSE [parent_id |-> parent_id, chunks |-> split_text(fs[path]), idx |-> 0]

\* one iteration of the loop over the chunks (lines 93-127)
pcf_chunk ==
    /\ pc = "pcf"
    /\ pcf.idx < Len(pcf.chunks)
    /\ \E ok \in BOOLEAN :
       \E chunk_id \in {generate_id(ChunkKey(pcf.parent_id, pcf.idx))} :
       \E ns \in {merge_node(nodes, "Chunk", <<>>, chunk_id,
                             [text |-> pcf.chunks[pcf.idx + 1],
                              embedding |-> embedding_or_fallback(ok),
                              index |-> pcf.idx])} :
          /\ nodes' = ns
          /\ edges' = chunk_rels(edges, ns, pcf.parent_id, pcf.idx)
          /\ embed_failed' = IF ok THEN embed_failed ELSE embed_failed \cup {chunk_id}
    /\ writes' = writes \o chunk_writes(pcf.parent_id, pcf.idx)
    /\ pcf' = [pcf EXCEPT !.idx = @ + 1]
    /\ IF pcf.idx + 1 = Len(pcf.chunks)
       THEN /\ pc' = "walk"
            /\ split_log' = Append(split_log, [owner |-> pcf.parent_id, n |-> Len(pcf.chunks)])
       ELSE UNCHANGED <<pc, split_log>>
    /\ UNCHANGED <<docVars, batchVars, text, run, first_run, worklist, level_nodes>>
    /\ UNCHANGED hierVars
    /\ UNCHANGED storeVars
    /\ UNCHANGED shrinkVars

(***************************************************************************)
(* create_lexical_graph                                                    *)
(***************************************************************************)
\* the entries process_folder(current_path, parent_id, parent_level) loops over
folder_items(ds, current_path, parent_id, parent_level) ==
    LET items == sorted(listdir(ds, current_path))
    IN  [k \in 1..Len(items) |-> <<current_path \o <<items[k]>>, parent_id, parent_level>>]

\* level_nodes[level].append((order, node_id, name)), creating the list if absent
track_node(ln, level, entry) ==
    IF \E k \in 1..Len(ln) : ln[k].level = level
    THEN [k \in 1..Len(ln) |->
            IF ln[k].level = level THEN [ln[k] EXCEPT !.nodes = Append(@, entry)] ELSE ln[k]]
    ELSE Append(ln, [level |-> level, nodes |-> <<entry>>])

RECURSIVE sorted_by_order(_)
\* sorted(nodes, key=lambda x: x[0]): stable
sorted_by_order(ns) ==
    IF ns = <<>> THEN <<>>
    ELSE LET i == CHOOSE k \in 1..Len(ns) :
                    /\ \A j \in 1..Len(ns) : ns[k][1] <= ns[j][1]
                    /\ \A j \in 1..(k-1) : ns[j][1] > ns[k][1]
         IN  <<ns[i]>> \o sorted_by_order(SubSeq(ns, 1, i - 1) \o SubSeq(ns, i + 1, Len(ns)))

RECURSIVE next_rels_star(_, _, _)
\* a variant that links every entry from the first one
next_rels_star(es, ns, sn) ==
    IF Len(sn) < 2 THEN es
    ELSE next_rels_star(merge_rel(es, ns, sn[1][2], "NEXT", sn[Len(sn)][2]), ns,
                        SubSeq(sn, 1, Len(sn) - 1))

RECURSIVE next_rels(_, _, _)
\* NEXT between consecutive entries of one level's sorted list
next_rels(es, ns, sn) ==
    IF Len(sn) < 2 THEN es
    ELSE next_rels(merge_rel(es, ns, sn[1][2], "NEXT", sn[2][2]), ns, Tail(sn))

RECURSIVE next_pass(_, _, _)
\* for level, nodes in level_nodes.items(): ... (lines 722-735)
next_pass(es, ns, ln) ==
    IF ln = <<>> THEN es
    ELSE next_pass(next_rels(es, ns, sorted_by_order(Head(ln).nodes)), ns, Tail(ln))

\* a variant that links every node to the node of the folder above it
is_direct_child_any(parent_level, level) == level > parent_level

\* if parent_level is None or level == parent_level + 1 (-1 stands for None)
is_direct_child(parent_level, level) == parent_level = -1 \/ level = parent_level + 1

\* the session.run calls of process_folder for one folder, in program order:
\* the heading node (lines 677-685), then HAS_CHILD if it is issued (693-699)
folder_writes(parent_id, parent_level, level, node_id) ==
    <<node_write(node_id)>> \o
       (IF is_direct_child(parent_level, level)
        THEN <<rel_write(parent_id, "HAS_CHILD", node_id)>> ELSE <<>>)

RECURSIVE next_rel_writes(_)
\* the session.run calls of the second pass for one level's sorted list
next_rel_writes(sn) ==
    IF Len(sn) < 2 THEN <<>>
    ELSE <<rel_write(sn[1][2], "NEXT", sn[2][2])>> \o next_rel_writes(Tail(sn))

RECURSIVE next_pass_writes(_)
\* the session.run calls of the second pass (lines 722-735)
next_pass_writes(ln) ==
    IF ln = <<>> THEN <<>>
    ELSE next_rel_writes(sorted_by_order(Head(ln).nodes)) \o next_pass_writes(Tail(ln))

\* the Document node, the root content unit, the first listing (lines 612-649, 719)
clg_start ==
    /\ pc = "hier_done"
    /\ \E doc_id \in {generate_id(NameKey(output_path[Len(output_path)]))} :
       \E call \in {content_call(files, output_path, doc_id)} :
          /\ nodes' = merge_node(nodes, "Document", <<>>, doc_id,
                                 [name |-> output_path[Len(output_path)]])
          /\ pcf' = call
          /\ pc' = IF call.chunks # <<>> THEN "pcf" ELSE "walk"
          /\ worklist' = folder_items(dirs, output_path, doc_id, -1)
    /\ writes' = <<node_write(generate_id(NameKey(output_path[Len(output_path)])))>>
    /\ level_nodes' = <<>>
    /\ embed_failed' = {}
    /\ split_log' = <<>>
    /\ UNCHANGED <<docVars, batchVars, text, run, first_run, edges>>
    /\ UNCHANGED hierVars
    /\ UNCHANGED storeVars
    /\ UNCHANGED shrinkVars

\* process_folder on one directory whose name parses (lines 660-716)
clg_folder ==
    /\ pc = "walk"
    /\ worklist # <<>>
    /\ \E item \in {Head(worklist)} :
       \E parsed \in {parse_folder_name(item[1][Len(item[1])])} :
       \E node_id \in {generate_id(PathKey(item[1]))} :
          /\ parsed.level # -1
          /\ \E ns \in {merge_node(nodes, "Heading", label_of(parsed.level), node_id,
                                   IF parsed.number # <<>>
                                   THEN [name |-> parsed.name, number |-> parsed.number]
                                   ELSE [name |-> parsed.name])} :
             \E call \in {content_call(files, item[1], node_id)} :
                /\ nodes' = ns
                /\ level_nodes' = track_node(level_nodes, parsed.level,
                                             <<parsed.order, node_id, parsed.name>>)
                /\ edges' = IF is_direct_child(item[3], parsed.level)
                            THEN merge_rel(edges, ns, item[2], "HAS_CHILD", node_id)
                            ELSE edges
                /\ writes' = writes \o folder_writes(item[2], item[3], parsed.level, node_id)
                /\ pcf' = call
                /\ pc' = IF call.chunks # <<>> THEN "pcf" ELSE "walk"
                /\ worklist' = folder_items(dirs, item[1], node_id, parsed.level)
                                  \o Tail(worklist)
    /\ UNCHANGED <<docVars, batchVars, text, run, first_run, embed_failed, split_log>>
    /\ UNCHANGED hierVars
    /\ UNCHANGED storeVars
    /\ UNCHANGED shrinkVars

\* process_folder on a directory whose name does not parse: nothing is done
clg_skip ==
    /\ pc = "walk"
    /\ worklist # <<>>
    /\ parse_folder_name(Head(worklist)[1][Len(Head(worklist)[1])]).level = -1
    /\ worklist' = Tail(worklist)
    /\ UNCHANGED <<docVars, batchVars, text, pc, run, first_run, nodes, edges, level_nodes, pcf,
                   embed_failed, split_log, writes>>
    /\ UNCHANGED hierVars
    /\ UNCHANGED storeVars
    /\ UNCHANGED shrinkVars

\* the second pass: NEXT between the nodes of each level (lines 721-735)
clg_next ==
    /\ pc = "walk"
    /\ worklist = <<>>
    /\ edges' = next_pass(edges, nodes, level_nodes)
    /\ writes' = writes \o next_pass_writes(level_nodes)
    /\ pc' = "done"
    /\ UNCHANGED <<docVars, batchVars, text, run, first_run, nodes, worklist, level_nodes, pcf,
                   embed_failed, split_log>>
    /\ UNCHANGED hierVars
    /\ UNCHANGED storeVars
    /\ UNCHANGED shrinkVars

create_lexical_graph == clg_start \/ pcf_chunk \/ clg_folder \/ clg_skip \/ clg_next

\* the pipeline is run again on the same input, over the storage and graph it left
rerun ==
    /\ pc = "done"
    /\ run = 1
    /\ first_run' = [dirs |-> dirs, files |-> files, nodes |-> nodes, edges |-> edges]
    /\ run' = 2
    /\ pc' = "eh_start"
    /\ UNCHANGED <<docVars, batchVars, text>>
    /\ UNCHANGED hierVars
    /\ UNCHANGED storeVars
    /\ UNCHANGED graphVars
    /\ UNCHANGED shrinkVars

(***************************************************************************)
(* extract_data                                                            *)
(***************************************************************************)
\* a variant that marks the file whether or not the task raised (finally:)
mark_in_finally(marked, file, task_raised, mark_done) ==
    IF mark_done THEN marked \cup {file} ELSE marked

\* try: function(...); self._mark_document_extracted(file, task) / except: print.
\* task_raised: the task function raised; mark_done: _mark_document_extracted
\* found a connection, a run id, a column and the output, and its UPDATE went through
mark_after_task(marked, file, task_raised, mark_done) ==
    IF ~task_raised /\ mark_done THEN marked \cup {file} ELSE marked

\* one iteration of `for file in self.files` (lines 1089-1106)
extract_data_file ==
    /\ pc = "batch"
    /\ processed < Len(input_files)
    /\ \E task_raised \in BOOLEAN : \E mark_done \in BOOLEAN :
          /\ extracted' = mark_after_task(extracted, input_files[processed + 1],
                                          task_raised, mark_done)
          /\ raised' = IF task_raised THEN raised \cup {input_files[processed + 1]}
                       ELSE raised
    /\ processed' = processed + 1
    /\ UNCHANGED <<docVars, input_files, text, pc, run, first_run>>
    /\ UNCHANGED hierVars
    /\ UNCHANGED storeVars
    /\ UNCHANGED graphVars
    /\ UNCHANGED shrinkVars

\* the loop over the files is over (lines 1108-1110)
extract_data_end ==
    /\ pc = "batch"
    /\ processed >= Len(input_files)
    /\ pc' = "batch_done"
    /\ UNCHANGED <<docVars, batchVars, text, run, first_run>>
    /\ UNCHANGED hierVars
    /\ UNCHANGED storeVars
    /\ UNCHANGED graphVars
    /\ UNCHANGED shrinkVars

extract_data == extract_data_file \/ extract_data_end

(***************************************************************************)
(* A second document                                                       *)
(***************************************************************************)
\* the hierarchy folder of the first document
FirstRoot == << <<"a">>, <<"h">> >>

\* the hierarchy folders a second document may have: other folders, one of them
\* with the basename of the first
OtherRoots == { << <<"b">>, <<"h">> >>, << <<"b">>, <<"g">> >> }

\* the pipeline is run on another document, with another root folder, into the
\* same graph store; what the first document's run left is kept for comparison
next_document ==
    /\ pc = "done"
    /\ run = 1
    /\ first_run' = [dirs |-> dirs, files |-> files, nodes |-> nodes, edges |-> edges]
    /\ root' \in OtherRoots
    /\ text' \in {Concat(ls) : ls \in UNION {[1..k -> {<<"#", " ", "b", "\n">>, <<"b", "\n">>}] :
                                              k \in 0..MaxDocLines}}
    /\ run' = 2
    /\ pc' = "eh_start"
    /\ UNCHANGED <<batchVars, confident, vector_dim>>
    /\ UNCHANGED hierVars
    /\ UNCHANGED storeVars
    /\ UNCHANGED graphVars
    /\ UNCHANGED shrinkVars

(***************************************************************************)
(* Interruption and restart                                                *)
(***************************************************************************)
\* the same input is given to a pipeline whose storage and graph store are
\* empty; what the finished run left is kept for comparison
fresh_store ==
    /\ pc = "done"
    /\ run = 1
    /\ first_run' = [dirs |-> dirs, files |-> files,
                     nodes |-> [k \in 1..Len(nodes) |-> [nodes[k] EXCEPT !.embedding = NoVector]],
                     edges |-> edges]
    /\ dirs' = {}
    /\ files' = <<>>
    /\ nodes' = <<>>
    /\ edges' = <<>>
    /\ worklist' = <<>>
    /\ level_nodes' = <<>>
    /\ pcf' = NoCall
    /\ embed_failed' = {}
    /\ split_log' = <<>>
    /\ writes' = <<>>
    /\ run' = 2
    /\ pc' = "eh_start"
    /\ UNCHANGED <<docVars, batchVars, text>>
    /\ UNCHANGED hierVars
    /\ UNCHANGED shrinkVars

\* the storage and graph a process leaves when it dies now: what is written so
\* far, or that and the first writes of the step it is in
interrupted_stores ==
    LET cur == [dirs |-> dirs, files |-> files, nodes |-> nodes, edges |-> edges]
    IN  {cur} \cup
        CASE pc = "eh_start" -> {[cur EXCEPT !.dirs = makedirs(dirs, output_path)]}
          [] pc = "eh_loop" ->
                IF li > Len(lines) \/ header_match(lines[li]).matched
                THEN {[cur EXCEPT !.dirs = write_content_dirs(dirs, stack)]}
                ELSE {}
          [] pc = "pcf" ->
                {[cur EXCEPT !.nodes =
                     merge_node(nodes, "Chunk", <<>>,
                                generate_id(ChunkKey(pcf.parent_id, pcf.idx)),
                                [text |-> pcf.chunks[pcf.idx + 1],
                                 embedding |-> embedding_or_fallback(ok),
                                 index |-> pcf.idx])] : ok \in BOOLEAN}
          [] pc = "walk" /\ worklist # <<>> ->
                LET item == Head(worklist)
                    parsed == parse_folder_name(item[1][Len(item[1])])
                IN  IF parsed.level = -1 THEN {}
                    ELSE {[cur EXCEPT !.nodes =
                             merge_node(nodes, "Heading", label_of(parsed.level),
                                        generate_id(PathKey(item[1])),
                                        IF parsed.number # <<>>
                                        THEN [name |-> parsed.name, number |-> parsed.number]
                                        ELSE [name |-> parsed.name])]}
          [] pc = "walk" /\ worklist = <<>> ->
                {[cur EXCEPT !.edges =
                     next_rels(next_pass(edges, nodes, SubSeq(level_nodes, 1, k - 1)), nodes,
                               SubSeq(sorted_by_order(level_nodes[k].nodes), 1, j))] :
                    <<k, j>> \in {kj \in (1..Len(level_nodes)) \X (1..MaxLines) :
                                     kj[2] <= Len(level_nodes[kj[1]].nodes)}}
          [] OTHER -> {}

\* the process dies in the middle of the run and the pipeline is started again
\* from scratch on the same input, over the storage and graph left behind
interrupt ==
    /\ run = 2
    /\ pc \in {"eh_start", "eh_loop", "hier_done", "pcf", "walk"}
    /\ \E left \in interrupted_stores :
          /\ dirs' = left.dirs
          /\ files' = left.files
          /\ nodes' = left.nodes
          /\ edges' = left.edges
          /\ first_run' = [at |-> pc, left_nodes |-> Len(left.nodes),
                           left_edges |-> Len(left.edges)] @@ first_run
    /\ run' = 3
    /\ pc' = "eh_start"
    /\ UNCHANGED <<docVars, batchVars, text, worklist, level_nodes, pcf, embed_failed, split_log,
                   writes>>
    /\ UNCHANGED hierVars
    /\ UNCHANGED shrinkVars

(***************************************************************************)
(* shrink_file                                                             *)
(***************************************************************************)
\* a variant that leaves out the last character of the slice
slice_short(t, from, to) == SubStr(t, from + 1, (IF to < Len(t) THEN to ELSE Len(t)) - 1)

\* text[start:end] of Python, 0-based, end clipped to the length
slice(t, from, to) == SubStr(t, from + 1, IF to < Len(t) THEN to ELSE Len(t))

\* the file is read, chunks = [], start = 0 (lines 971-976)
sk_start ==
    /\ pc = "sk_start"
    /\ chunks' = <<>>
    /\ start' = 0
    /\ pc' = "sk_loop"
    /\ UNCHANGED <<docVars, batchVars, text, run, first_run, sk_text, chunk_length, overlap_size, sk_files>>
    /\ UNCHANGED hierVars
    /\ UNCHANGED storeVars
    /\ UNCHANGED graphVars

\* one iteration of `while start < len(text)` (lines 978-987); the number of
\* iterations is capped for the configurations in which the loop never ends
sk_iter ==
    /\ pc = "sk_loop"
    /\ start < Len(sk_text)
    /\ Len(chunks) <= MaxText + 1
    /\ chunks' = Append(chunks, slice(sk_text, start, start + chunk_length))
    /\ start' = start + chunk_length - overlap_size
    /\ pc' = IF start + chunk_length - overlap_size < 0 THEN "sk_break" ELSE "sk_loop"
    /\ UNCHANGED <<docVars, batchVars, text, run, first_run, sk_text, chunk_length, overlap_size, sk_files>>
    /\ UNCHANGED hierVars
    /\ UNCHANGED storeVars
    /\ UNCHANGED graphVars

\* after the loop: chunk_{i+1}.txt is written for every chunk (lines 989-995)
sk_save ==
    /\ \/ pc = "sk_loop" /\ start >= Len(sk_text)
       \/ pc = "sk_break"
    /\ sk_files' = [k \in 1..Len(chunks) |-> chunks[k]] @@ sk_files
    /\ pc' = "sk_done"
    /\ UNCHANGED <<docVars, batchVars, text, run, first_run, sk_text, chunk_length, overlap_size, start, chunks>>
    /\ UNCHANGED hierVars
    /\ UNCHANGED storeVars
    /\ UNCHANGED graphVars

shrink_file == sk_start \/ sk_iter \/ sk_save

(***************************************************************************)
(* Inputs                                                                  *)
(***************************************************************************)
\* a header line "#...# title\n"
HeaderLine(level, title) == [k \in 1..level |-> "#"] \o <<" ">> \o title \o <<"\n">>

\* the title drawn for a header of a level; the level-2 title has a number prefix
TitleOf(level) == IF level = 2 THEN <<"2", " ", "b">> ELSE <<"a">>

BodyLine == <<"x", "\n">>

\* the lines of the header-parser specification: headers of every level, body text
HierLines == {HeaderLine(l, TitleOf(l)) : l \in 1..MaxLevel}

Texts(alphabet, n) == {Concat(ls) : ls \in UNION {[1..k -> alphabet] : k \in 0..n}}

\* one document in the folder "h", its text file decodable; no batch running
InitOneDoc ==
    /\ root = << <<"h">> >>
    /\ confident = TRUE
    /\ vector_dim = default_vector_dim
    /\ input_files = <<>>
    /\ processed = 0
    /\ extracted = {}
    /\ raised = {}

InitCommon ==
    /\ run = 1
    /\ lines = <<>>
    /\ li = 1
    /\ stack = <<>>
    /\ counters = <<>>
    /\ current_content = <<>>
    /\ sections = <<>>
    /\ dirs = {}
    /\ files = <<>>
    /\ nodes = <<>>
    /\ edges = <<>>
    /\ worklist = <<>>
    /\ level_nodes = <<>>
    /\ pcf = NoCall
    /\ embed_failed = {}
    /\ split_log = <<>>
    /\ writes = <<>>
    /\ first_run = [dirs |-> {}, files |-> <<>>, nodes |-> <<>>, edges |-> <<>>]

InitNoShrink ==
    /\ sk_text = <<>>
    /\ chunk_length = 1
    /\ overlap_size = 0
    /\ start = 0
    /\ chunks = <<>>
    /\ sk_files = <<>>

\* the levels of the headers of the pipeline's inputs
PipeLevels == {1, 2, 3}

\* the lines of the pipeline's inputs: headers, a header with an empty title, body text
PipeLines == {HeaderLine(l, TitleOf(l)) : l \in PipeLevels} \cup {<<"#", "\n">>, BodyLine}

\* the pipeline on every text of up to MaxLines lines
Init ==
    /\ InitOneDoc
    /\ text \in Texts(PipeLines, MaxLines)
    /\ pc = "eh_start"
    /\ InitCommon
    /\ InitNoShrink

Next == eh_start \/ eh_header \/ eh_content \/ eh_finish
           \/ clg_start \/ pcf_chunk \/ clg_folder \/ clg_skip \/ clg_next \/ rerun

Spec == Init /\ [][Next]_vars

\* the lines of the header parser's texts: headers, body text, and a line that
\* starts with '#' without being a header
TextLines == {HeaderLine(1, TitleOf(1)), HeaderLine(2, TitleOf(2)), BodyLine,
              <<"#", "t", "\n">>}

\* extract_hierarchy alone on every text of up to MaxLines lines
InitText ==
    /\ InitOneDoc
    /\ text \in Texts(TextLines, MaxLines)
    /\ pc = "eh_start"
    /\ InitCommon
    /\ InitNoShrink

NextText == eh_start \/ eh_header \/ eh_content \/ eh_finish

SpecText == InitText /\ [][NextText]_vars

\* the lines of the header recognizer's texts: a header, a header behind leading
\* whitespace, a header with padded title, a marker without title, a marker
\* without whitespace, body text
RecognizeLines == {HeaderLine(1, TitleOf(1)),
                   <<" ">> \o HeaderLine(2, TitleOf(1)),
                   HeaderLine(2, <<" ", "a", " ">>),
                   <<"#", "\n">>,
                   <<"#", "a", "\n">>,
                   BodyLine}

\* extract_hierarchy alone on every text of up to MaxLines of these lines
InitRecognize ==
    /\ InitOneDoc
    /\ text \in Texts(RecognizeLines, MaxLines)
    /\ pc = "eh_start"
    /\ InitCommon
    /\ InitNoShrink

NextRecognize == eh_start \/ eh_header \/ eh_content \/ eh_finish

SpecRecognize == InitRecognize /\ [][NextRecognize]_vars

\* extract_hierarchy alone on text files for which charset detection finds a
\* decoding, and on text files for which it finds none
InitDecode ==
    /\ root = << <<"h">> >>
    /\ confident \in BOOLEAN
    /\ vector_dim = default_vector_dim
    /\ input_files = <<>>
    /\ processed = 0
    /\ extracted = {}
    /\ raised = {}
    /\ text \in Texts(TextLines, MaxLines)
    /\ pc = "eh_start"
    /\ InitCommon
    /\ InitNoShrink

NextDecode == eh_start \/ eh_header \/ eh_content \/ eh_finish

SpecDecode == InitDecode /\ [][NextDecode]_vars

\* a title that climbs out of its own folder into the folder of the second
\* level-1 section titled "a"
DotsTitle == <<"a", "/", ".", ".", "/", "l", "0", "-", "n", "2", "-", "a">>

\* the lines of the texts with special titles: a plain title, a title with a
\* path separator, a title with a ".." component, an empty title, a title with
\* a number prefix, body text
TitleLines == {HeaderLine(1, TitleOf(1)),
               HeaderLine(1, <<"a", "/", "b">>),
               HeaderLine(1, DotsTitle),
               <<"#", "\n">>,
               HeaderLine(2, TitleOf(2)),
               BodyLine}

\* extract_hierarchy alone on every text of up to MaxLines of these lines
InitTitles ==
    /\ InitOneDoc
    /\ text \in Texts(TitleLines, MaxLines)
    /\ pc = "eh_start"
    /\ InitCommon
    /\ InitNoShrink

NextTitles == eh_start \/ eh_header \/ eh_content \/ eh_finish

SpecTitles == InitTitles /\ [][NextTitles]_vars

\* the texts of the listing specification: at most one level-2 header, then up
\* to MaxSiblings level-1 headers
ListingTexts ==
    {Concat([i \in 1..j |-> HeaderLine(2, TitleOf(2))] \o [i \in 1..k |-> HeaderLine(1, TitleOf(1))]) :
        <<j, k>> \in (0..1) \X (0..MaxSiblings)}

\* the pipeline on documents with many sibling sections
InitListing ==
    /\ InitOneDoc
    /\ text \in ListingTexts
    /\ pc = "eh_start"
    /\ InitCommon
    /\ InitNoShrink

NextListing == eh_start \/ eh_header \/ eh_finish \/ clg_start \/ clg_folder \/ clg_next

SpecListing == InitListing /\ [][NextListing]_vars

\* the names of the files of the input folder
FileNames == <<"f1", "f2", "f3", "f4", "f5", "f6">>

\* extract_data for one task on every folder of up to MaxFiles files
InitBatch ==
    /\ root = << <<"h">> >>
    /\ confident = TRUE
    /\ vector_dim = default_vector_dim
    /\ input_files \in {SubSeq(FileNames, 1, n) : n \in 0..MaxFiles}
    /\ processed = 0
    /\ extracted = {}
    /\ raised = {}
    /\ text = <<>>
    /\ pc = "batch"
    /\ InitCommon
    /\ InitNoShrink

NextBatch == extract_data_file \/ extract_data_end

SpecBatch == InitBatch /\ [][NextBatch]_vars

\* the lines of the first document's texts
DocLines == {HeaderLine(1, TitleOf(1)), BodyLine}

\* the pipeline on one document, then on a second one with another root folder
InitDocs ==
    /\ root = FirstRoot
    /\ confident = TRUE
    /\ vector_dim = default_vector_dim
    /\ input_files = <<>>
    /\ processed = 0
    /\ extracted = {}
    /\ raised = {}
    /\ text \in Texts(DocLines, MaxDocLines)
    /\ pc = "eh_start"
    /\ InitCommon
    /\ InitNoShrink

NextDocs == eh_start \/ eh_header \/ eh_content \/ eh_finish
               \/ clg_start \/ pcf_chunk \/ clg_folder \/ clg_next
               \/ next_document

SpecDocs == InitDocs /\ [][NextDocs]_vars

\* the dimensions the vector index is configured with
VectorDims == {384, 768, 1536}

\* the pipeline on one document for every configured dimension
InitDims ==
    /\ root = << <<"h">> >>
    /\ confident = TRUE
    /\ vector_dim \in VectorDims
    /\ input_files = <<>>
    /\ processed = 0
    /\ extracted = {}
    /\ raised = {}
    /\ text \in Texts(DocLines, MaxDocLines)
    /\ pc = "eh_start"
    /\ InitCommon
    /\ InitNoShrink

NextDims == eh_start \/ eh_header \/ eh_content \/ eh_finish
               \/ clg_start \/ pcf_chunk \/ clg_folder \/ clg_next

SpecDims == InitDims /\ [][NextDims]_vars

\* the document's file has been edited and the pipeline is run again for it,
\* over the output folder and the graph the earlier run left
rerun_other_text ==
    /\ pc = "done"
    /\ run = 1
    /\ text' \in Texts(DocLines, MaxDocLines)
    /\ first_run' = [dirs |-> dirs, files |-> files, nodes |-> nodes, edges |-> edges]
    /\ run' = 2
    /\ pc' = "eh_start"
    /\ UNCHANGED <<docVars, batchVars>>
    /\ UNCHANGED hierVars
    /\ UNCHANGED storeVars
    /\ UNCHANGED graphVars
    /\ UNCHANGED shrinkVars

\* the pipeline on a document, then again on a later text of the same document
InitStale ==
    /\ InitOneDoc
    /\ text \in Texts(DocLines, MaxDocLines)
    /\ pc = "eh_start"
    /\ InitCommon
    /\ InitNoShrink

NextStale == eh_start \/ eh_header \/ eh_content \/ eh_finish
                \/ clg_start \/ pcf_chunk \/ clg_folder \/ clg_next
                \/ rerun_other_text

SpecStale == InitStale /\ [][NextStale]_vars

\* the lines of the texts of the interrupted pipeline
CrashLines == {HeaderLine(1, TitleOf(1)), HeaderLine(2, TitleOf(2)), <<"#", "\n">>, BodyLine}

\* an uninterrupted run, then on empty stores a run that is interrupted at any
\* point and started again
InitCrash ==
    /\ InitOneDoc
    /\ text \in Texts(CrashLines, MaxCrashLines)
    /\ pc = "eh_start"
    /\ InitCommon
    /\ InitNoShrink

NextCrash == eh_start \/ eh_header \/ eh_content \/ eh_finish
                \/ clg_start \/ pcf_chunk \/ clg_folder \/ clg_skip \/ clg_next
                \/ fresh_store \/ interrupt

SpecCrash == InitCrash /\ [][NextCrash]_vars

\* shrink_file on every text of up to MaxText characters and every configuration
InitShrink ==
    /\ InitOneDoc
    /\ text = <<>>
    /\ pc = "sk_start"
    /\ InitCommon
    /\ sk_text \in UNION {[1..n -> {"a", "b"}] : n \in 0..MaxText}
    /\ chunk_length \in 1..MaxChunk
    /\ overlap_size \in 0..MaxChunk
    /\ start = 0
    /\ chunks = <<>>
    /\ sk_files = <<>>

NextShrink == sk_start \/ sk_iter \/ sk_save

SpecShrink == InitShrink /\ [][NextShrink]_vars

\* shrink_file runs to its end: no step of the function is postponed for ever
SpecShrinkLive == InitShrink /\ [][NextShrink]_vars /\ WF_vars(NextShrink)

\* the header parser on every sequence of up to MaxHeaders headers
InitHier ==
    /\ InitOneDoc
    /\ text \in Texts(HierLines, MaxHeaders)
    /\ pc = "eh_start"
    /\ InitCommon
    /\ InitNoShrink

NextHier == eh_start \/ eh_header \/ eh_finish

SpecHier == InitHier /\ [][NextHier]_vars

(***************************************************************************)
(* Header level/order                                                      *)
(***************************************************************************)
RECURSIVE HeaderLevels(_)
\* the levels of the header lines of a list of lines, in document order
HeaderLevels(ls) ==
    IF ls = <<>> THEN <<>>
    ELSE (IF header_match(Head(ls)).matched THEN <<header_match(Head(ls)).level>> ELSE <<>>)
         \o HeaderLevels(Tail(ls))

\* the header levels of the input text
InputLevels == HeaderLevels(splitlines(text))

\* the levels of the sections recorded so far
SectionLevels == [k \in 1..Len(sections) |-> sections[k].level]

\* one step of the specified counter algorithm on a header of level L:
\* truncate the array to length L, pad with zeros, increment counter[L-1]
SpecCounters(c, L) ==
    LET t == IF Len(c) >= L THEN SubSeq(c, 1, L) ELSE c \o [k \in 1..(L - Len(c)) |-> 0]
    IN  [t EXCEPT ![L] = @ + 1]

RECURSIVE SpecOrders(_, _)
\* the order the specified algorithm gives each header of a level sequence,
\* starting from the counter array c
SpecOrders(lv, c) ==
    IF lv = <<>> THEN <<>>
    ELSE LET n == SpecCounters(c, Head(lv))
         IN  <<n[Head(lv)]>> \o SpecOrders(Tail(lv), n)

SectionOrders == [k \in 1..Len(sections) |-> sections[k].order]

\* C1: every header processed so far carries the order the specified counter
\* algorithm gives for the sequence of header levels up to it, and the headers
\* at levels [2,3,3,2,1,2] end with the orders [1,1,2,2,1,1].
C1_OrderIsSpecCounter ==
    /\ SectionOrders = SpecOrders(SectionLevels, <<>>)
    /\ pc = "hier_done" => SectionLevels = InputLevels
    /\ (pc = "hier_done" /\ SectionLevels = <<2, 3, 3, 2, 1, 2>>)
          => SectionOrders = <<1, 1, 2, 2, 1, 1>>

C1_Witness ==
    /\ pc = "hier_done"
    /\ SectionLevels = <<2, 3, 3, 2, 1, 2>>
    /\ SectionOrders = <<1, 1, 2, 2, 1, 1>>

\* the parent of the k-th header of a level sequence: the nearest preceding
\* header of lower level (0: the root)
ParentOf(lv, k) ==
    IF \E j \in 1..(k-1) : lv[j] < lv[k]
    THEN CHOOSE j \in 1..(k-1) : lv[j] < lv[k] /\ \A i \in (j+1)..(k-1) : lv[i] >= lv[k]
    ELSE 0

\* the earlier siblings of the k-th header: same parent, same level
EarlierSiblings(lv, k) ==
    {j \in 1..(k-1) : lv[j] = lv[k] /\ ParentOf(lv, j) = ParentOf(lv, k)}

\* C2: the sections of one parent and one level carry the orders 1, 2, 3, ... in
\* document order, and while a section is open (on the stack) the counter of its
\* level still equals its order: opening a descendant never changed it.
C2_SiblingOrders ==
    /\ \A lv \in {SectionLevels} : \A k \in 1..Len(sections) :
          sections[k].order = Cardinality(EarlierSiblings(lv, k)) + 1
    /\ \A a \in 1..Len(stack) :
          \E k \in 1..Len(sections) :
             /\ sections[k].path = stack[a][2]
             /\ sections[k].level = stack[a][1]
             /\ Len(counters) >= stack[a][1]
             /\ counters[stack[a][1]] = sections[k].order

C2_Witness ==
    /\ pc = "hier_done"
    /\ LET lv == SectionLevels
       IN  \E a, b, c \in 1..Len(sections) :
          /\ a < b /\ b < c /\ c < Len(sections)
          /\ ParentOf(lv, a) # 0
          /\ b > a + 1
          /\ EarlierSiblings(lv, c) = {a, b}
          /\ sections[a].order = 1 /\ sections[b].order = 2 /\ sections[c].order = 3
          /\ Len(stack) >= 3

(***************************************************************************)
(* Text kept by the header parser                                          *)
(***************************************************************************)
\* the indices of the lines that are headers
HeaderIdx(ls) == {i \in 1..Len(ls) : header_match(ls[i]).matched}

\* the index of the first header after line h (one past the end if none)
NextHeader(ls, h) ==
    IF \E i \in HeaderIdx(ls) : i > h
    THEN CHOOSE i \in HeaderIdx(ls) : i > h /\ \A j \in HeaderIdx(ls) : j > h => i <= j
    ELSE Len(ls) + 1

\* C3: no text is lost. When extract_hierarchy has finished, the root content unit
\* holds every line before the first header (the whole text when there is no
\* header), every header has one section whose content unit holds the lines up to
\* the next header, and there is no other content unit.
C3_NoTextLost ==
    pc = "hier_done" =>
       \A ls \in {splitlines(text)} :
          /\ output_path \in DOMAIN files
          /\ files[output_path] = rstrip_nl(Concat(SubSeq(ls, 1, NextHeader(ls, 0) - 1)))
          /\ {sections[k].line : k \in 1..Len(sections)} = HeaderIdx(ls)
          /\ \A k \in 1..Len(sections) :
                /\ sections[k].path \in DOMAIN files
                /\ files[sections[k].path] =
                      strip(Concat(SubSeq(ls, sections[k].line + 1,
                                          NextHeader(ls, sections[k].line) - 1)))
          /\ DOMAIN files = {output_path} \cup {sections[k].path : k \in 1..Len(sections)}

(***************************************************************************)
(* The graph                                                               *)
(***************************************************************************)
Count(seq, e) == Cardinality({k \in 1..Len(seq) : seq[k] = e})

EdgeSet == {edges[k] : k \in 1..Len(edges)}

NodeIds(kind) == {nodes[k].id : k \in {j \in 1..Len(nodes) : nodes[j].kind = kind}}

NodeOf(id) == nodes[CHOOSE k \in 1..Len(nodes) : nodes[k].id = id]

WithoutEmbedding(ns) == [k \in 1..Len(ns) |-> [ns[k] EXCEPT !.embedding = NoVector]]

\* C4: when the second run of the pipeline on the same input has finished, the
\* storage tree (directories and content.txt texts) and the graph's nodes (ids,
\* labels, names, numbers, chunk texts and indices) and edges are those the first
\* run left, and no node id and no edge occurs twice. The embedding vectors are
\* the provider's answers of the run and are not compared.
C4_RerunIdentical ==
    (pc = "done" /\ run = 2) =>
       /\ dirs = first_run.dirs
       /\ files = first_run.files
       /\ WithoutEmbedding(nodes) = WithoutEmbedding(first_run.nodes)
       /\ edges = first_run.edges
       /\ \A j, k \in 1..Len(nodes) : nodes[j].id = nodes[k].id => j = k
       /\ \A k \in 1..Len(edges) : Count(edges, edges[k]) = 1

C4_Witness ==
    /\ pc = "done"
    /\ run = 2
    /\ Len(sections) >= 2
    /\ Cardinality(NodeIds("Chunk")) >= 2
    /\ \E k \in 1..Len(edges) : edges[k][2] = "NEXT"
    /\ \E p \in DOMAIN files : Len(p) = 3 /\ files[p] # <<>>

RECURSIVE Joined(_)
\* the ids joined to a set of ids by HAS_CHILD and NEXT edges, direction ignored
Joined(R) ==
    LET N == R \cup {e[3] : e \in {d \in EdgeSet : d[1] \in R}}
               \cup {e[1] : e \in {d \in EdgeSet : d[3] \in R}}
    IN  IF N = R THEN R ELSE Joined(N)

AllIds == {nodes[k].id : k \in 1..Len(nodes)}

DocId == generate_id(NameKey(output_path[Len(output_path)]))

\* the level parse_folder_name reads from the folder of a heading node
LevelOf(id) == parse_folder_name(id[2][Len(id[2])]).level

OrderOf(id) == parse_folder_name(id[2][Len(id[2])]).order

\* the heading nodes whose level is not the level of their parent folder plus one
LevelSkips ==
    {id \in NodeIds("Heading") :
        /\ Len(id[2]) > Len(output_path) + 1
        /\ LevelOf(id) # parse_folder_name(id[2][Len(id[2]) - 1]).level + 1}

\* C5 as stated: after create_lexical_graph every node is joined to the Document
\* root by a path of HAS_CHILD and NEXT edges.
C5_Connected == pc = "done" => Joined({DocId}) = AllIds

\* C5 amended: after create_lexical_graph every node is joined to the Document
\* root or to a heading node whose level skips ahead of its parent folder's level;
\* the graph is connected when no heading skips a level.
C5_ConnectedUpToSkips ==
    pc = "done" =>
       /\ Joined({DocId} \cup LevelSkips) = AllIds
       /\ LevelSkips = {} => Joined({DocId}) = AllIds

C5_Witness ==
    /\ pc = "done"
    /\ \E id \in LevelSkips :
          /\ id \notin Joined({DocId})
          /\ generate_id(ChunkKey(id, 0)) \in Joined({id})
    /\ Cardinality(Joined({DocId})) >= 3

\* C6: after create_lexical_graph there is exactly one Document node, every
\* section the header parser recorded has exactly one heading node (the one of its
\* folder), and every heading node is the node of a section.
C6_OneNodePerSection ==
    pc = "done" =>
       /\ Count([k \in 1..Len(nodes) |-> nodes[k].kind], "Document") = 1
       /\ \A k \in 1..Len(sections) :
             Count([j \in 1..Len(nodes) |-> <<nodes[j].kind, nodes[j].id>>],
                   <<"Heading", generate_id(PathKey(sections[k].path))>>) = 1
       /\ \A id \in NodeIds("Heading") :
             \E k \in 1..Len(sections) : id = generate_id(PathKey(sections[k].path))
       /\ Cardinality(NodeIds("Heading")) = Len(sections)

\* the id of chunk i of an owner
Cid(owner, i) == generate_id(ChunkKey(owner, i))

IsChunkOf(id, owner) == id[1] = ChunkKey(owner, 0)[1] /\ id[2] = owner[2]

\* C7: for every content unit that process_content_file has split into n >= 1
\* chunks, the graph holds exactly one HAS_CHILD edge owner -> chunk 0, no other
\* HAS_CHILD edge to a chunk of the unit, and between the unit's chunks exactly the
\* NEXT edges chunk i -> chunk i+1, each once.
C7_ChunkChain ==
    \A u \in 1..Len(split_log) :
       \A o \in {split_log[u].owner} : \A n \in {split_log[u].n} :
          /\ n >= 1
          /\ Count(edges, <<o, "HAS_CHILD", Cid(o, 0)>>) = 1
          /\ \A k \in 1..Len(edges) :
                (edges[k][2] = "HAS_CHILD" /\ IsChunkOf(edges[k][3], o))
                   => edges[k] = <<o, "HAS_CHILD", Cid(o, 0)>>
          /\ \A i, j \in 0..(n - 1) :
                Count(edges, <<Cid(o, i), "NEXT", Cid(o, j)>>) = IF j = i + 1 THEN 1 ELSE 0
          /\ \A k \in 1..Len(edges) :
                (edges[k][2] = "NEXT" /\ IsChunkOf(edges[k][1], o))
                   => IsChunkOf(edges[k][3], o) /\ edges[k][3][3] < n

C7_Witness ==
    /\ pc = "done"
    /\ \E u \in 1..Len(split_log) :
          /\ split_log[u].n >= 3
          /\ split_log[u].owner[1] = "path"
          /\ Count(edges, <<Cid(split_log[u].owner, 1), "NEXT", Cid(split_log[u].owner, 2)>>) = 1

HeadingLevels == {LevelOf(id) : id \in NodeIds("Heading")}

AtLevel(L) == {id \in NodeIds("Heading") : LevelOf(id) = L}

RECURSIVE Walk(_, _, _)
\* the nodes met from x along NEXT edges inside S
Walk(x, S, seen) ==
    IF x \in seen THEN seen
    ELSE IF \E y \in S : <<x, "NEXT", y>> \in EdgeSet
         THEN Walk(CHOOSE y \in S : <<x, "NEXT", y>> \in EdgeSet, S, seen \cup {x})
         ELSE seen \cup {x}

\* C8: after the second pass the n heading nodes of one level carry exactly n-1
\* NEXT edges among them, the edges form a single chain through all n nodes, every
\* edge goes to a node of equal or higher order, and no NEXT edge joins heading
\* nodes of different levels.
C8_LevelChain ==
    pc = "done" =>
       /\ \A L \in HeadingLevels : \A S \in {AtLevel(L)} :
            /\ Cardinality({k \in 1..Len(edges) :
                              edges[k][2] = "NEXT" /\ edges[k][1] \in S /\ edges[k][3] \in S})
                  = Cardinality(S) - 1
            /\ \A x \in S : Cardinality({y \in S : <<x, "NEXT", y>> \in EdgeSet}) <= 1
            /\ \E h \in S :
                  /\ ~\E y \in S : <<y, "NEXT", h>> \in EdgeSet
                  /\ Walk(h, S, {}) = S
            /\ \A x, y \in S : <<x, "NEXT", y>> \in EdgeSet => OrderOf(x) <= OrderOf(y)
       /\ \A e \in EdgeSet :
             (e[2] = "NEXT" /\ e[1] \in NodeIds("Heading")) =>
                e[3] \in NodeIds("Heading") /\ LevelOf(e[1]) = LevelOf(e[3])

C8_Witness ==
    /\ pc = "done"
    /\ \E L \in HeadingLevels : \E a, b, c \in AtLevel(L) :
          /\ <<a, "NEXT", b>> \in EdgeSet
          /\ <<b, "NEXT", c>> \in EdgeSet
          /\ Len(a[2]) # Len(b[2])
          /\ OrderOf(a) = 1 /\ OrderOf(b) = 1 /\ OrderOf(c) = 2

\* the units of this run: the ones split so far and the one being processed
UnitsSeen ==
    {<<split_log[u].owner, split_log[u].n>> : u \in 1..Len(split_log)}
       \cup (IF pc = "pcf" THEN {<<pcf.parent_id, pcf.idx>>} ELSE {})

\* C9: whatever subset of the embedding calls raises, every chunk written so far
\* is a node with its text and index, linked by the HAS_CHILD/NEXT chain; a chunk
\* whose call raised carries an all-zero vector and every other chunk the
\* provider's vector; the loop goes on until every chunk of the unit is written,
\* and the run ends with every non-empty content unit split.
C9_EmbeddingFailureIsolated ==
    /\ \A un \in UnitsSeen : \A o \in {un[1]} : \A i \in 0..(un[2] - 1) :
          /\ Count([k \in 1..Len(nodes) |-> nodes[k].id], Cid(o, i)) = 1
          /\ \A c \in {NodeOf(Cid(o, i))} :
                /\ c.kind = "Chunk"
                /\ c.index = i
                /\ c.text = split_text(files[o[2]])[i + 1]
                /\ c.embedding = IF Cid(o, i) \in embed_failed
                                 THEN [zero |-> TRUE, dim |-> fallback_dim]
                                 ELSE [zero |-> FALSE, dim |-> vector_dim]
          /\ IF i = 0 THEN <<o, "HAS_CHILD", Cid(o, 0)>> \in EdgeSet
             ELSE <<Cid(o, i - 1), "NEXT", Cid(o, i)>> \in EdgeSet
    /\ pc = "pcf" => pcf.idx < Len(pcf.chunks)
    /\ \A u \in 1..Len(split_log) :
          split_log[u].n = Len(split_text(files[split_log[u].owner[2]]))
    /\ pc = "done" =>
          \A o \in NodeIds("Document") \cup NodeIds("Heading") :
             (o[2] \in DOMAIN files /\ split_text(files[o[2]]) # <<>>)
                => \E u \in 1..Len(split_log) : split_log[u].owner = o

C9_Witness ==
    /\ pc = "done"
    /\ \E u \in 1..Len(split_log) : \E o \in {split_log[u].owner} :
          /\ split_log[u].n >= 3
          /\ Cid(o, 1) \in embed_failed
          /\ Cid(o, 0) \notin embed_failed
          /\ Cid(o, 2) \notin embed_failed
          /\ NodeOf(Cid(o, 1)).embedding.zero
          /\ ~NodeOf(Cid(o, 2)).embedding.zero

(***************************************************************************)
(* The character chunker                                                   *)
(***************************************************************************)
\* C10: with 0 <= overlap_size < chunk_length, when shrink_file has finished every
\* chunk but the last has chunk_length characters, and the last overlap_size
\* characters of every chunk are the first characters of the next one.
C10_ExactOverlap ==
    (pc = "sk_done" /\ overlap_size < chunk_length) =>
       /\ \A i \in 1..(Len(chunks) - 1) : Len(chunks[i]) = chunk_length
       /\ \A i \in 1..(Len(chunks) - 1) :
             /\ Len(chunks[i]) >= overlap_size
             /\ Len(chunks[i + 1]) >= overlap_size
             /\ SubStr(chunks[i], Len(chunks[i]) - overlap_size + 1, Len(chunks[i]))
                   = SubStr(chunks[i + 1], 1, overlap_size)

(***************************************************************************)
(* Level gaps                                                              *)
(***************************************************************************)
\* the folder of the parent of the k-th section: the folder of the nearest
\* preceding section of lower level, or the document's folder
ParentPath(k) ==
    IF ParentOf(SectionLevels, k) = 0 THEN output_path
    ELSE sections[ParentOf(SectionLevels, k)].path

\* the folders of the sections and of the document, with the folders above it
SectionDirs ==
    {SubStr(output_path, 1, n) : n \in 1..Len(output_path)}
       \cup {sections[k].path : k \in 1..Len(sections)}

\* C11: the folder of every section is a direct child folder of the folder of
\* the nearest preceding section of lower level (of the document's folder when
\* there is none), whatever the difference of the two levels, it is named after
\* the section's own level and order, and the tree holds no folder but the
\* sections' folders: none is made for a level that was skipped.
C11_GapNesting ==
    /\ \A k \in 1..Len(sections) :
          sections[k].path = ParentPath(k)
               \o <<numbered_title(sections[k].level, sections[k].order, sections[k].title)>>
    /\ dirs \subseteq SectionDirs
    /\ pc = "hier_done" => (dirs = SectionDirs /\ SectionLevels = InputLevels)

C11_Witness ==
    /\ pc = "hier_done"
    /\ \E k \in 2..Len(sections) :
          /\ sections[k].level = 3
          /\ sections[k - 1].level = 1
          /\ ParentPath(k) = sections[k - 1].path
          /\ Len(sections[k].path) = Len(output_path) + 2
          /\ sections[k].path \in dirs
    /\ \E k \in 2..Len(sections) : sections[k].level = sections[k - 1].level

(***************************************************************************)
(* Header recognition                                                      *)
(***************************************************************************)
\* the specified recognizer: optional leading whitespace, one or more '#', at
\* least one whitespace character, nonempty text; the level is the number of '#'
\* and the title is the trimmed text
SpecHeader(line) ==
    LET s == SubStr(line, SpacesFrom(line, 1) + 1, Len(line))
        h == LeadingHashes(s)
        w == SpacesFrom(s, h + 1)
        t == strip(SubStr(s, h + w + 1, Len(s)))
    IN  [matched |-> h >= 1 /\ w >= 1 /\ t # <<>>, level |-> h, title |-> t]

\* C12: every line the loop has passed opened a section if and only if it is a
\* header by the specified rule (optional leading whitespace, '#'s, whitespace,
\* nonempty text), and the section carries the number of '#' as its level and the
\* trimmed text as its title.
C12_HeaderIff ==
    pc \in {"eh_loop", "hier_done"} =>
       \A i \in 1..(li - 1) : \A h \in {SpecHeader(lines[i])} :
          /\ h.matched <=> \E k \in 1..Len(sections) : sections[k].line = i
          /\ \A k \in 1..Len(sections) :
                sections[k].line = i =>
                   (sections[k].level = h.level /\ sections[k].title = h.title)

(***************************************************************************)
(* Restart after an interruption                                           *)
(***************************************************************************)
\* C13: when the run that was started again after an interruption has finished,
\* the storage tree and the graph's nodes and edges are those of the run that
\* was never interrupted, and no node id and no edge occurs twice. The embedding
\* vectors are the provider's answers of the run and are not compared.
C13_RestartEqualsUninterrupted ==
    (pc = "done" /\ run = 3) =>
       /\ dirs = first_run.dirs
       /\ files = first_run.files
       /\ WithoutEmbedding(nodes) = first_run.nodes
       /\ edges = first_run.edges
       /\ \A j, k \in 1..Len(nodes) : nodes[j].id = nodes[k].id => j = k
       /\ \A k \in 1..Len(edges) : Count(edges, edges[k]) = 1

C13_Witness ==
    /\ pc = "done"
    /\ run = 3
    /\ first_run.at = "pcf"
    /\ first_run.left_nodes >= 3
    /\ first_run.left_nodes < Len(nodes)
    /\ first_run.left_edges >= 1
    /\ first_run.left_edges < first_run.left_nodes - 1
    /\ \E k \in 1..Len(edges) : edges[k][2] = "NEXT" /\ edges[k][1][1] = "path"

(***************************************************************************)
(* Configuration                                                           *)
(***************************************************************************)
\* C14: with overlap_size >= chunk_length the configuration is rejected before
\* any document is processed: shrink_file never reaches its loop, cuts no chunk
\* and saves no chunk file.
C14_ConfigRejected ==
    overlap_size >= chunk_length =>
       /\ pc \notin {"sk_loop", "sk_break", "sk_done"}
       /\ chunks = <<>>
       /\ sk_files = <<>>

(***************************************************************************)
(* Two documents in one graph store                                        *)
(***************************************************************************)
\* the ids of the nodes the running create_lexical_graph has written
RunIds ==
    {DocId}
       \cup UNION {{level_nodes[k].nodes[j][2] : j \in 1..Len(level_nodes[k].nodes)} :
                     k \in 1..Len(level_nodes)}
       \cup UNION {{Cid(un[1], i) : i \in 0..(un[2] - 1)} : un \in UnitsSeen}

\* C15: while and after the second document, whose root folder differs from the
\* first one's, is loaded into the same graph store, no node id its run writes
\* is an id of a node of the first document, every node of the first document
\* keeps its properties, and no edge is added at a node of the first document.
C15_DisjointIds ==
    (run = 2 /\ pc \in {"pcf", "walk", "done"}) =>
       /\ root # FirstRoot
       /\ RunIds \cap {first_run.nodes[k].id : k \in 1..Len(first_run.nodes)} = {}
       /\ \A k \in 1..Len(first_run.nodes) : nodes[k] = first_run.nodes[k]
       /\ \A k \in (Len(first_run.edges) + 1)..Len(edges) :
             \A j \in 1..Len(first_run.nodes) :
                first_run.nodes[j].id \notin {edges[k][1], edges[k][3]}

(***************************************************************************)
(* The batch                                                               *)
(***************************************************************************)
\* C16: a file on which the task raised is never marked as extracted, the loop
\* goes on after it (the files attempted so far are the first `processed` ones,
\* whatever raised among them), and extract_data ends only when every file of
\* the folder has been attempted.
C16_BatchContinues ==
    /\ raised \cap extracted = {}
    /\ processed <= Len(input_files)
    /\ raised \cup extracted \subseteq {input_files[k] : k \in 1..processed}
    /\ pc = "batch_done" => processed = Len(input_files)

C16_Witness ==
    /\ pc = "batch_done"
    /\ Len(input_files) >= 3
    /\ input_files[1] \in raised
    /\ input_files[2] \in extracted
    /\ input_files[3] \in raised
    /\ processed = Len(input_files)

(***************************************************************************)
(* Decoding                                                                *)
(***************************************************************************)
\* C17: when charset detection finds no decoding, extract_hierarchy stops before
\* it writes anything: no folder, no content unit, no line taken from a text
\* that is not the decoded input; and whatever it splits into lines is the
\* decoded input.
C17_DecodeFailsLoudly ==
    /\ ~confident => (pc = "eh_start" /\ dirs = {} /\ files = <<>> /\ lines = <<>>)
    /\ pc # "eh_start" => lines = splitlines(text)

(***************************************************************************)
(* Empty input                                                             *)
(***************************************************************************)
\* C18: on the empty text extract_hierarchy writes the root folder with an empty
\* content unit and nothing else, and create_lexical_graph on that tree ends
\* with the Document node alone: no heading node, no chunk node, no edge.
C18_EmptyText ==
    text = <<>> =>
       /\ sections = <<>>
       /\ pc # "eh_start" =>
             /\ dirs = {SubStr(output_path, 1, n) : n \in 1..Len(output_path)}
             /\ files = (output_path :> <<>>)
       /\ pc \in {"pcf", "walk", "done"} =>
             /\ pc # "pcf"
             /\ Len(nodes) = 1
             /\ nodes[1].kind = "Document"
             /\ nodes[1].id = DocId
             /\ nodes[1].name = output_path[Len(output_path)]
             /\ NodeIds("Heading") = {}
             /\ NodeIds("Chunk") = {}
             /\ edges = <<>>
             /\ split_log = <<>>

C18_Witness ==
    /\ text = <<>>
    /\ pc = "done"
    /\ run = 1
    /\ files = (output_path :> <<>>)
    /\ Len(nodes) = 1

(***************************************************************************)
(* Parent edges                                                            *)
(***************************************************************************)
\* the node of the folder above the folder of a heading node
FolderParent(id) ==
    IF Len(id[2]) = Len(output_path) + 1 THEN DocId
    ELSE generate_id(PathKey(SubStr(id[2], 1, Len(id[2]) - 1)))

\* the level of the node of the folder above; the Document stands above level 0
FolderParentLevel(id) ==
    IF Len(id[2]) = Len(output_path) + 1 THEN -1
    ELSE parse_folder_name(id[2][Len(id[2]) - 1]).level

\* the nodes with a HAS_CHILD edge to a node
ParentsOf(id) == {e[1] : e \in {d \in EdgeSet : d[2] = "HAS_CHILD" /\ d[3] = id}}

\* C19 as stated: a heading node has a HAS_CHILD edge from the node of the
\* folder above it exactly when its level is that node's level plus one (the
\* Document standing above level 0), and otherwise it has no HAS_CHILD edge
\* from any node.
C19_DirectChildOnly ==
    pc = "done" =>
       \A id \in NodeIds("Heading") :
          ParentsOf(id) = IF LevelOf(id) = FolderParentLevel(id) + 1
                          THEN {FolderParent(id)} ELSE {}

\* C19 amended: a heading node has a HAS_CHILD edge from the node of the folder
\* above it exactly when that node is the Document or its level is that node's
\* level plus one, and it has no HAS_CHILD edge from any other node: a section
\* that skips a level below another section has no parent edge at all, a section
\* at the top of the document is a child of the Document whatever its level.
C19_DirectChildOrTop ==
    pc = "done" =>
       \A id \in NodeIds("Heading") :
          ParentsOf(id) = IF FolderParent(id) = DocId
                             \/ LevelOf(id) = FolderParentLevel(id) + 1
                          THEN {FolderParent(id)} ELSE {}

C19_Witness ==
    /\ pc = "done"
    /\ \E id \in NodeIds("Heading") :
          /\ FolderParent(id) = DocId
          /\ LevelOf(id) >= 1
          /\ ParentsOf(id) = {DocId}
    /\ \E id \in NodeIds("Heading") :
          /\ FolderParent(id) # DocId
          /\ LevelOf(id) > FolderParentLevel(id) + 1
          /\ ParentsOf(id) = {}
    /\ \E id \in NodeIds("Heading") :
          /\ FolderParent(id) # DocId
          /\ LevelOf(id) = FolderParentLevel(id) + 1
          /\ ParentsOf(id) = {FolderParent(id)}

(***************************************************************************)
(* Reading order                                                           *)
(***************************************************************************)
\* the line of the header of the section of a heading node
HeaderLineOf(id) ==
    sections[CHOOSE k \in 1..Len(sections) : sections[k].path = id[2]].line

\* C20: after the second pass every NEXT edge between two heading nodes goes
\* from a section to a section whose header comes later in the text: the chain
\* of each level visits its sections in document order.
C20_ReadingOrder ==
    pc = "done" =>
       \A e \in EdgeSet :
          (e[2] = "NEXT" /\ e[1] \in NodeIds("Heading") /\ e[3] \in NodeIds("Heading"))
             => HeaderLineOf(e[1]) < HeaderLineOf(e[3])

(***************************************************************************)
(* Stray folders                                                           *)
(***************************************************************************)
\* the folders below the document's folder
FoldersBelowRoot ==
    {d \in dirs : Len(d) > Len(output_path) /\ SubStr(d, 1, Len(output_path)) = output_path}

\* C21: after create_lexical_graph a folder whose name does not parse has no
\* heading node, and every folder below the document's folder whose name parses
\* has one, also when it lies below a folder whose name does not parse.
C21_StrayFolderVisited ==
    pc = "done" =>
       \A d \in FoldersBelowRoot :
          (parse_folder_name(d[Len(d)]).level # -1)
             <=> generate_id(PathKey(d)) \in NodeIds("Heading")

(***************************************************************************)
(* Folder names                                                            *)
(***************************************************************************)
\* C22: for every section extract_hierarchy has recorded, parse_folder_name on
\* the folder segment written for it returns the section's level minus one, its
\* order, its title as name and the title's leading number as number.
C22_ParseInvertsNaming ==
    \A k \in 1..Len(sections) :
       /\ Len(sections[k].path) = Len(ParentPath(k)) + 1
       /\ parse_folder_name(sections[k].path[Len(sections[k].path)])
             = [level |-> sections[k].level - 1,
                order |-> sections[k].order,
                name |-> sections[k].title,
                number |-> number_in_name(sections[k].title)]

(***************************************************************************)
(* The fallback vector                                                     *)
(***************************************************************************)
\* C23: every chunk whose embedding call raised carries a vector of zeros whose
\* length is the configured vector_dim, the dimension of the chunk vector index.
C23_FallbackHasConfiguredDim ==
    \A k \in 1..Len(nodes) :
       (nodes[k].kind = "Chunk" /\ nodes[k].id \in embed_failed)
          => (nodes[k].embedding.zero /\ nodes[k].embedding.dim = vector_dim)

(***************************************************************************)
(* Listing order                                                           *)
(***************************************************************************)
\* the level and order parse_folder_name reads from the folder of a listed item
ItemLevel(item) == parse_folder_name(item[1][Len(item[1])]).level

ItemOrder(item) == parse_folder_name(item[1][Len(item[1])]).order

\* C24: the folders of one parent that process_folder still has to visit are
\* listed in increasing level and, within one level, in increasing order number.
C24_ListingOrder ==
    \A i, j \in 1..Len(worklist) :
       (i < j /\ worklist[i][2] = worklist[j][2]) =>
          \/ ItemLevel(worklist[i]) < ItemLevel(worklist[j])
          \/ /\ ItemLevel(worklist[i]) = ItemLevel(worklist[j])
             /\ ItemOrder(worklist[i]) < ItemOrder(worklist[j])

(***************************************************************************)
(* Storage paths                                                           *)
(***************************************************************************)
\* C25: the path of every section is the path of its parent followed by the
\* segment l{level-1}-n{order}-{title}, and no two sections of the document are
\* stored in the same directory.
C25_DistinctPaths ==
    /\ \A k \in 1..Len(sections) :
          sections[k].path = path_join(ParentPath(k),
                                numbered_title(sections[k].level, sections[k].order, sections[k].title))
    /\ \A j, k \in 1..Len(sections) :
          j # k => realpath(sections[j].path) # realpath(sections[k].path)

\* C26: every section is stored in exactly one directory level below its
\* parent's folder, and after extract_hierarchy the tree holds the sections'
\* folders and nothing else, each with its own content.txt.
C26_OneDirPerSection ==
    /\ \A k \in 1..Len(sections) :
          /\ Len(sections[k].path) = Len(ParentPath(k)) + 1
          /\ \A n \in 1..Len(sections[k].title) : sections[k].title[n] # "/"
    /\ pc = "hier_done" =>
          /\ dirs = SectionDirs
          /\ DOMAIN files = {output_path} \cup {sections[k].path : k \in 1..Len(sections)}

(***************************************************************************)
(* Write ordering                                                          *)
(***************************************************************************)
\* the positions of the log at which the node id is upserted
NodeWrites(id) == {i \in 1..Len(writes) : writes[i] = node_write(id)}

IsRelWrite(w) == w[2] # "NODE"

\* a NEXT written by the second pass: between the nodes of two folders
IsHeadingNext(w) == w[2] = "NEXT" /\ w[1][1] = "path"

\* C27: in a run of create_lexical_graph the first write is the Document node;
\* every HAS_CHILD or NEXT write comes after the upserts of both of its
\* endpoints in that run, the source's upsert before the target's for HAS_CHILD
\* and for the NEXT between two chunks; every relationship written is in the
\* store; and once a NEXT between two heading nodes is written, nothing but
\* such NEXT writes follow, and the traversal is over.
C27_WriteOrder ==
    /\ writes # <<>> => writes[1] = node_write(DocId)
    /\ \A i \in 1..Len(writes) :
          IsRelWrite(writes[i]) =>
             /\ \E a \in NodeWrites(writes[i][1]) : \E b \in NodeWrites(writes[i][3]) :
                   /\ a < i
                   /\ b < i
                   /\ ~IsHeadingNext(writes[i]) => a < b
             /\ pc \in {"pcf", "walk", "done"} => writes[i] \in EdgeSet
    /\ \A i, j \in 1..Len(writes) :
          (i < j /\ IsHeadingNext(writes[i])) => IsHeadingNext(writes[j])
    /\ (\E i \in 1..Len(writes) : IsHeadingNext(writes[i])) =>
          (worklist = <<>> /\ pc \in {"done", "eh_start", "eh_loop", "hier_done"})

C27_Witness ==
    /\ pc = "done"
    /\ \E i, j, k \in 1..Len(writes) :
          /\ IsHeadingNext(writes[i])
          /\ writes[j][2] = "HAS_CHILD" /\ writes[j][3][1] = "path"
          /\ writes[k][2] = "NEXT" /\ ~IsHeadingNext(writes[k])

(***************************************************************************)
(* A tree from an earlier run                                              *)
(***************************************************************************)
\* the heading nodes upserted in this run of create_lexical_graph
HeadingWrites == {writes[i][1] : i \in {n \in 1..Len(writes) : writes[n][2] = "NODE" /\ writes[n][1][1] = "path"}}

\* C28: after extract_hierarchy has run over the tree of an earlier run, the
\* folders and content.txt files of the document are exactly those of the
\* sections of the current text, and create_lexical_graph then loads exactly
\* these sections as heading nodes.
C28_OnlyCurrentSections ==
    /\ (run = 2 /\ pc \in {"hier_done", "pcf", "walk", "done"}) =>
          /\ dirs = SectionDirs
          /\ DOMAIN files = {output_path} \cup {sections[k].path : k \in 1..Len(sections)}
    /\ (run = 2 /\ pc = "done") =>
          HeadingWrites = {generate_id(PathKey(sections[k].path)) : k \in 1..Len(sections)}

(***************************************************************************)
(* The ancestry stack                                                      *)
(***************************************************************************)
\* C29: once a header has been met, the levels of the stack increase strictly
\* from bottom to top, the top of the stack is the section of the last header
\* met, and the counters have as many entries as that header's level.
C29_StackShape ==
    sections # <<>> =>
       /\ stack # <<>>
       /\ \A i \in 1..(Len(stack) - 1) : stack[i][1] < stack[i + 1][1]
       /\ stack[Len(stack)] = <<sections[Len(sections)].level, sections[Len(sections)].path>>
       /\ Len(counters) = sections[Len(sections)].level

C29_Witness ==
    /\ Len(stack) = 2
    /\ stack[1][1] = 1
    /\ stack[2][1] = 2
    /\ \E k \in 1..Len(sections) : sections[k].level = 3
    /\ \E k \in 1..(Len(sections) - 1) : sections[k].level = 1 /\ sections[k + 1].level = 3

(***************************************************************************)
(* Termination of shrink_file                                              *)
(***************************************************************************)
\* every position of the text lies in the chunk cut at some multiple of the
\* step chunk_length - overlap_size, which holds the text's character there
Covered ==
    \A p \in 1..Len(sk_text) :
       \E i \in 1..Len(chunks) :
          \E s \in {(i - 1) * (chunk_length - overlap_size)} :
             /\ s < p
             /\ p <= s + Len(chunks[i])
             /\ chunks[i][p - s] = sk_text[p]

\* C30: with 0 <= overlap_size < chunk_length, shrink_file reaches its end
\* (the loop terminates and the chunks are saved), and then every character
\* position of the text is contained in a chunk.
C30_TerminatesCovering ==
    (0 <= overlap_size /\ overlap_size < chunk_length)
       ~> (pc = "sk_done" /\ Covered /\ DOMAIN sk_files = 1..Len(chunks))

C30_Witness ==
    /\ pc = "sk_done"
    /\ 1 <= overlap_size
    /\ overlap_size < chunk_length
    /\ Len(chunks) >= 3
    /\ Len(sk_text) = MaxText
    /\ Covered

====
